---- MODULE Spec2Model ----
(***************************************************************************)
(* Behavior elements (MotionElement leaves, SequenceElement composites)    *)
(* and the Executor that drives a tree of them, modelled from              *)
(* src/element.hpp, src/executor.hpp, src/types.hpp and src/main.cpp.      *)
(*                                                                         *)
(* Units: velocities are in m/s, times in ms, positions in mm (so that     *)
(* velocity * period / 1000.0 metres is velocity * period millimetres).    *)
(* Positions are exact decimals here; the source uses IEEE doubles.        *)
(***************************************************************************)
EXTENDS Integers, Sequences, FiniteSets, TLC

\* ------------------------------------------------------------------ bounds
\* Total number of tick() calls a caller issues on the root in one behaviour.
MaxTicks == 5
\* Number of times the same element objects are driven through a full cycle.
MaxRuns == 2
\* Number of calls a caller other than Executor::run makes on the root.
MaxCalls == 4
\* Number of passes of the loop explored in main's run.
MaxMainTicks == 45
\* Number of passes of the loop in main's run that the scheduler holds up.
MaxLate == 2
\* Number of ticks within which a leaf without a modelled body ends.
MaxLeafTicks == 2
\* Number of passes of the loop explored in a run whose leaves all end.
MaxLiveTicks == 10
\* Number of ticks a caller gives a lone WalkToPosition.
MaxWalkTicks == 3

\* ------------------------------------------------------- program constants
ReactionDef_DISABLED == 0
ReactionDef_ENABLED == 1
period == 100
MY_VELO == 1
GOAL_THRESHOLD == 100
TIMEOUT == 60000

\* Outcome::Return
Running == "Running"
Success == "Success"
Fail == "Fail"
Return == {Running, Success, Fail}

\* Outcome() = default : value Fail, actuate value-initialised to 0.
Outcome == [value |-> Fail, velocity |-> 0]

\* ------------------------------------------------------------------- trees
\* An element is a record; children are held by reference (element ids).
SequenceElement(el) ==
  [kind |-> "Sequence", kids |-> el, kj |-> 0, fl |-> 0, goal |-> 0]
\* A leaf derived from MotionElement whose decision function is left open.
MotionElement(kj, fl) ==
  [kind |-> "Leaf", kids |-> <<>>, kj |-> kj, fl |-> fl, goal |-> 0]
Stop == [kind |-> "Stop", kids |-> <<>>, kj |-> ReactionDef_ENABLED,
         fl |-> ReactionDef_ENABLED, goal |-> 0]
WalkToPosition(goal) == [kind |-> "WalkToPosition", kids |-> <<>>,
                         kj |-> ReactionDef_ENABLED, fl |-> ReactionDef_DISABLED,
                         goal |-> goal]

\* The trees the model is run over; element 1 is the root handed to the caller.
Trees == {
  << MotionElement(0, 1) >>,
  << SequenceElement(<<>>) >>,
  << SequenceElement(<<2>>), MotionElement(1, 0) >>,
  << SequenceElement(<<2, 3>>), MotionElement(1, 0), MotionElement(0, 0) >>,
  << SequenceElement(<<2, 3, 4>>), MotionElement(1, 1), MotionElement(0, 1),
     MotionElement(1, 0) >>,
  << SequenceElement(<<2, 5>>), SequenceElement(<<3, 4>>), MotionElement(1, 0),
     MotionElement(0, 1), MotionElement(1, 1) >>,
  << SequenceElement(<<2, 3>>), MotionElement(0, 1), SequenceElement(<<4, 5>>),
     MotionElement(1, 0), MotionElement(1, 1) >>,
  << SequenceElement(<<2, 3>>), SequenceElement(<<>>), MotionElement(1, 1) >>,
  << SequenceElement(<<2, 3>>), MotionElement(1, 1), SequenceElement(<<>>) >>,
  << SequenceElement(<<2, 3>>), WalkToPosition(100), Stop >>,
  << SequenceElement(<<2, 3>>), WalkToPosition(-300), Stop >>,
  << SequenceElement(<<2, 5>>), SequenceElement(<<3>>), SequenceElement(<<4>>),
     MotionElement(0, 1), MotionElement(1, 0) >>,
  << SequenceElement(<<2, 3>>), MotionElement(0, 0), Stop >>,
  << Stop >>
}

VARIABLES
  tree,           \* the element objects: tree[e] is element e's configuration
  m_iter,         \* SequenceElement::m_iter, as an index into m_elements
  m_new_element,  \* SequenceElement::m_new_element
  m_first_tick,   \* MotionElement::m_first_tick
  init_ts,        \* WalkToPosition::init_ts
  sense,          \* the caller's SenseInfo
  out,            \* the Outcome last returned to the caller
  now,            \* std::chrono::steady_clock
  pc,             \* position of Executor::run
  trace,          \* every call made so far, in order
  ticks,          \* number of root ticks issued so far
  runs            \* number of Executor::run calls started so far

vars == << tree, m_iter, m_new_element, m_first_tick, init_ts, sense, out, now,
           pc, trace, ticks, runs >>

Elems == DOMAIN tree
IsSeq(e) == tree[e].kind = "Sequence"
IsMotionElement(e) == tree[e].kind # "Sequence"


\* ----------------------------------------------------------- element state
\* The mutable members of all element objects, threaded through the calls.
ElState == [m_iter |-> m_iter, m_new_element |-> m_new_element,
            m_first_tick |-> m_first_tick, init_ts |-> init_ts, trace |-> trace]

\* One recorded call: op on element el, with an outcome value and a number
\* (velocity, mask or timestamp) where the call has one.
Ev(op, e, val, n) == [op |-> op, el |-> e, val |-> val, n |-> n]
Log(st, ev) == [st EXCEPT !.trace = Append(@, ev)]

\* Bitwise OR of two naturals.
RECURSIVE BitOr(_, _)
BitOr(a, b) ==
  IF a = 0 THEN b
  ELSE IF b = 0 THEN a
  ELSE (IF a % 2 = 1 \/ b % 2 = 1 THEN 1 ELSE 0) + 2 * BitOr(a \div 2, b \div 2)

\* x << n
Shl(x, n) == x * 2 ^ n

\* get_reaction_defs without the shift of the flinch flag.
get_reaction_defs_NoShift(e) == BitOr(Shl(tree[e].kj, 0), Shl(tree[e].fl, 0))

get_reaction_defs(e) == BitOr(Shl(tree[e].kj, 0), Shl(tree[e].fl, 1))

\* Services::ReactionSvc
activate(st, e, bitmap_flag) == Log(st, Ev("activate", e, "-", bitmap_flag))
release(st, e, bitmap_flag) == Log(st, Ev("release", e, "-", bitmap_flag))

\* initialize that does not reset m_first_tick.
MotionElement_initialize_NoReset(st, e) ==
  activate(Log(st, Ev("initialize", e, "-", 0)), e, get_reaction_defs(e))

MotionElement_initialize(st, e) ==
  LET st1 == [Log(st, Ev("initialize", e, "-", 0)) EXCEPT !.m_first_tick[e] = TRUE]
  IN activate(st1, e, get_reaction_defs(e))

\* initialize that leaves the iterator where the last cycle left it.
SequenceElement_initialize_NoRewind(st, e) ==
  [Log(st, Ev("initialize", e, "-", 0)) EXCEPT
     !.m_iter[e] = IF @ < 1 THEN 1 ELSE @, !.m_new_element[e] = TRUE]

SequenceElement_initialize(st, e) ==
  [Log(st, Ev("initialize", e, "-", 0)) EXCEPT
     !.m_iter[e] = 1, !.m_new_element[e] = TRUE]

initialize(st, e) ==
  IF IsSeq(e) THEN SequenceElement_initialize(st, e)
  ELSE MotionElement_initialize(st, e)

\* finalize that leaves the mask active.
MotionElement_finalize_NoRelease(st, e) == Log(st, Ev("finalize", e, "-", 0))

MotionElement_finalize(st, e) ==
  release(Log(st, Ev("finalize", e, "-", 0)), e, get_reaction_defs(e))

SequenceElement_finalize(st, e) == Log(st, Ev("finalize", e, "-", 0))

finalize(st, e) ==
  IF IsSeq(e) THEN SequenceElement_finalize(st, e)
  ELSE MotionElement_finalize(st, e)

\* ------------------------------------------------------ decision functions
Abs(x) == IF x < 0 THEN -x ELSE x

\* std::numeric_limits<double>::epsilon() >= std::abs(v), on whole m/s.
IsZeroVelocity(v) == Abs(v) = 0

\* A Stop that keeps commanding the velocity it measures.
Stop_motion_element_tick_Coast(s) ==
  LET is_zero == IsZeroVelocity(s.measured_velocity)
  IN [value |-> IF is_zero THEN Success ELSE Running,
      velocity |-> s.measured_velocity]

Stop_motion_element_tick(s) ==
  LET is_zero == IsZeroVelocity(s.measured_velocity)
  IN [value |-> IF is_zero THEN Success ELSE Running, velocity |-> 0]

\* A control command that points away from the goal.
Direction_Reversed(dist_x) == IF dist_x >= 0 THEN -MY_VELO ELSE MY_VELO

\* dist_x >= 0 ? MY_VELO : -MY_VELO
Direction(dist_x) == IF dist_x >= 0 THEN MY_VELO ELSE -MY_VELO

\* std::abs(dist_x) < GOAL_THRESHOLD
GoalReached(dist_x) == Abs(dist_x) < GOAL_THRESHOLD

\* A timeout that is never noticed.
TimedOut_Never(elapsed) == FALSE

\* A timeout that already strikes at exactly TIMEOUT.
TimedOut_AtLimit(elapsed) == elapsed >= TIMEOUT

\* s.ts - me.init_ts > TIMEOUT
TimedOut(elapsed) == elapsed > TIMEOUT

\* A walk that commands no velocity once it is done.
WalkToPosition_motion_element_tick_HaltWhenDone(st, e, s) ==
  LET dist_x == tree[e].goal - s.measured_x
  IN IF GoalReached(dist_x)
       THEN [value |-> Success, velocity |-> 0]
     ELSE IF TimedOut(s.ts - st.init_ts[e])
       THEN [value |-> Fail, velocity |-> 0]
     ELSE IF s.is_knee_jerking
       THEN [value |-> Running, velocity |-> 0]
     ELSE [value |-> Running, velocity |-> Direction(dist_x)]

WalkToPosition_motion_element_tick(st, e, s) ==
  LET dist_x == tree[e].goal - s.measured_x
      velocity == Direction(dist_x)
  IN IF GoalReached(dist_x)
       THEN [value |-> Success, velocity |-> velocity]
     ELSE IF TimedOut(s.ts - st.init_ts[e])
       THEN [value |-> Fail, velocity |-> velocity]
     ELSE IF s.is_knee_jerking
       THEN [value |-> Running, velocity |-> 0]
     ELSE [value |-> Running, velocity |-> velocity]

\* Derived::motion_element_tick; d is what an open decision function returns.
motion_element_tick(st, e, s, d) ==
  IF tree[e].kind = "Stop" THEN Stop_motion_element_tick(s)
  ELSE IF tree[e].kind = "WalkToPosition"
    THEN WalkToPosition_motion_element_tick(st, e, s)
  ELSE d

\* Derived::motion_element_data_initialize; only WalkToPosition overrides it.
motion_element_data_initialize(st, e, s) ==
  LET st1 == Log(st, Ev("data_initialize", e, "-", s.ts))
  IN IF tree[e].kind = "WalkToPosition"
       THEN [st1 EXCEPT !.init_ts[e] = s.ts]
       ELSE st1

MotionElement_tick(st, e, s, d) ==
  LET st0 == Log(st, Ev("tick", e, "-", s.ts))
      st1 == IF st0.m_first_tick[e]
               THEN motion_element_data_initialize(
                      [st0 EXCEPT !.m_first_tick[e] = FALSE], e, s)
               ELSE st0
      st2 == Log(st1, Ev("decide", e, "-", s.ts))
      o == motion_element_tick(st2, e, s, d)
  IN [st |-> Log(st2, Ev("return", e, o.value, o.velocity)), o |-> o]

\* m_iter of a sequence that was constructed but never initialized still
\* points into the constructor's argument vector.
Dangling == 0
\* Reading a dangling m_iter may kill the process: Wild is the position that
\* does so, Crash the value the caller then sees instead of an Outcome.
Wild == -1
Crash == "Crash"

\* Advance that forgets ++m_iter.
Advance_Stay(st, e, cur, iter) ==
  [finalize(st, cur) EXCEPT !.m_new_element[e] = TRUE, !.m_iter[e] = iter]

\* Advance that forgets to finalize the child.
Advance_NoFinalize(st, e, cur, iter) ==
  [st EXCEPT !.m_new_element[e] = TRUE, !.m_iter[e] = iter + 1]

\* Advance that initializes the next child right away.
Advance_Eager(st, e, cur, iter) ==
  LET st1 == [finalize(st, cur) EXCEPT !.m_iter[e] = iter + 1]
  IN IF iter + 1 \in DOMAIN tree[e].kids
       THEN [initialize(st1, tree[e].kids[iter + 1]) EXCEPT
               !.m_new_element[e] = FALSE]
       ELSE [st1 EXCEPT !.m_new_element[e] = TRUE]

\* SequenceElement::tick, the child ended: finalize it and go to the next.
Advance(st, e, cur, iter) ==
  [finalize(st, cur) EXCEPT !.m_new_element[e] = TRUE, !.m_iter[e] = iter + 1]

\* Forward without the short-circuit: a failed child leaves the sequence running.
Forward_NoShortCircuit(cur_o, more) ==
  IF more THEN [value |-> Running, velocity |-> cur_o.velocity] ELSE cur_o

\* Forward that leaves the default actuate command in o after a success.
Forward_StaleActuate(cur_o, more) ==
  IF more
    THEN IF cur_o.value = Fail
           THEN cur_o
           ELSE [value |-> Running, velocity |-> Outcome.velocity]
    ELSE cur_o

\* Forward that passes a failure on without the child's actuate command.
Forward_FailDropsActuate(cur_o, more) ==
  IF cur_o.value = Fail
    THEN [Outcome EXCEPT !.value = Fail]
    ELSE IF more THEN [value |-> Running, velocity |-> cur_o.velocity] ELSE cur_o

\* Forward that spends one more tick of the sequence after its last child.
Forward_DoneTick(cur_o, more) ==
  IF cur_o.value = Fail
    THEN cur_o
    ELSE [value |-> Running, velocity |-> cur_o.velocity]

\* SequenceElement::tick, the child ended: the Outcome of the sequence, where
\* more says that m_iter has not reached m_elements.end().
Forward(cur_o, more) ==
  IF more
    THEN IF cur_o.value = Fail
           THEN cur_o
           ELSE [value |-> Running, velocity |-> cur_o.velocity]
    ELSE cur_o

\* AtEnd without the assignment of Fail: o keeps the Running it was given.
AtEnd_Running == [Outcome EXCEPT !.value = Running]

\* SequenceElement::tick when m_iter is at m_elements.end().
AtEnd == [Outcome EXCEPT !.value = Fail]

\* SequenceElement::tick and, through it, BehaviorElement::tick.
\* ub is the position a dangling m_iter behaves as (Wild: the process dies).
RECURSIVE tick(_, _, _, _, _)
SequenceElement_tick(st, e, s, d, ub) ==
  LET m_elements == tree[e].kids
      end == Len(m_elements) + 1
      st0 == Log(st, Ev("tick", e, "-", s.ts))
      iter == IF st0.m_iter[e] = Dangling THEN ub ELSE st0.m_iter[e]
  IN IF iter = Wild
       THEN [st |-> Log(st0, Ev("crash", e, "-", 0)),
             o |-> [value |-> Crash, velocity |-> 0]]
     ELSE IF iter # end
       THEN LET cur == m_elements[iter]
                st1 == IF st0.m_new_element[e]
                         THEN [initialize(st0, cur) EXCEPT
                                 !.m_new_element[e] = FALSE]
                         ELSE st0
                r == tick(st1, cur, s, d, ub)
                cur_o == r.o
            IN IF cur_o.value # Running
                 THEN LET o == Forward(cur_o, iter + 1 # end)
                      IN [st |-> Log(Advance(r.st, e, cur, iter),
                                     Ev("return", e, o.value, o.velocity)),
                          o |-> o]
                 ELSE [st |-> Log([r.st EXCEPT !.m_iter[e] = iter],
                                  Ev("return", e, cur_o.value, cur_o.velocity)),
                       o |-> cur_o]
     ELSE [st |-> Log([st0 EXCEPT !.m_iter[e] = iter],
                      Ev("return", e, AtEnd.value, AtEnd.velocity)),
           o |-> AtEnd]

tick(st, e, s, d, ub) ==
  IF IsSeq(e) THEN SequenceElement_tick(st, e, s, d, ub)
  ELSE MotionElement_tick(st, e, s, d)

\* ------------------------------------------------------------ construction
\* SenseInfo with its default member initialisers.
SenseInfo == [measured_velocity |-> 0, measured_x |-> 0, is_flinching |-> FALSE,
              is_knee_jerking |-> FALSE, ts |-> 0]

\* steady_clock::now() when the program starts.
Epoch == 1000

\* The members of freshly constructed elements and an idle Executor.
Constructed ==
  /\ m_iter = [e \in DOMAIN tree |-> Dangling]
  /\ m_new_element = [e \in DOMAIN tree |-> TRUE]
  /\ m_first_tick = [e \in DOMAIN tree |-> TRUE]
  /\ init_ts = [e \in DOMAIN tree |-> 0]
  /\ sense = SenseInfo
  /\ out = Outcome
  /\ now = Epoch
  /\ pc = "idle"
  /\ trace = <<>>
  /\ ticks = 0
  /\ runs = 0

Init ==
  /\ tree \in Trees
  /\ Constructed

\* Write the element members of st back to the variables.
Store(st) ==
  /\ m_iter' = st.m_iter
  /\ m_new_element' = st.m_new_element
  /\ m_first_tick' = st.m_first_tick
  /\ init_ts' = st.init_ts
  /\ trace' = st.trace

\* What an open decision function may return.
Velocities == {0, 1}
Decisions == [value : Return, velocity : Velocities]
\* How long one pass of the loop takes: sleep_for sleeps at least the period.
\* Only WalkToPosition reads the clock, so only its trees get a long delay.
Delays ==
  IF \E e \in DOMAIN tree : tree[e].kind = "WalkToPosition"
    THEN {period, TIMEOUT}
    ELSE {period}

\* ---------------------------------------------------------------- Executor
root == 1

\* A loop condition that only stops on Fail.
While_NotFail(o) == o.value # Fail

\* The condition of the do-while loop.
While(o) == o.value = Running

\* Executor::run up to the loop: fresh Services, Outcome and SenseInfo,
\* then element.initialize(svc).
RunStart ==
  /\ pc \in {"idle", "done"}
  /\ runs < MaxRuns
  /\ runs' = runs + 1
  /\ out' = Outcome
  /\ sense' = [SenseInfo EXCEPT !.ts = now]
  /\ Store(initialize(ElState, root))
  /\ pc' = "loop"
  /\ UNCHANGED << tree, now, ticks >>

\* Simulated walking that skips the command of the tick that ended the run.
Actuate_NotOnLastTick(s, o) ==
  IF o.value = Running
    THEN [s EXCEPT !.measured_x = @ + o.velocity * period,
                   !.measured_velocity = o.velocity]
    ELSE s

\* Executor::run, "simulate walking": apply the actuate command of o to s.
Actuate(s, o) ==
  [s EXCEPT !.measured_x = @ + o.velocity * period,
            !.measured_velocity = o.velocity]

\* One pass of the do-while loop: tick, simulate walking, sleep.
Loop(d, delay) ==
  /\ pc = "loop"
  /\ ticks' = ticks + 1
  /\ LET s == [sense EXCEPT !.ts = now]
         r == tick(ElState, root, s, d, Wild)
     IN /\ Store(r.st)
        /\ out' = r.o
        /\ sense' = Actuate(s, r.o)
        /\ pc' = IF While(r.o) THEN "loop" ELSE "finalize"
  /\ now' = now + delay
  /\ UNCHANGED << tree, runs >>

\* A pass of the loop, within the number of ticks explored.
RunLoop(d, delay) ==
  /\ ticks < MaxTicks
  /\ Loop(d, delay)

\* After the loop: element.finalize(), then return to the caller.
RunFinish ==
  /\ pc = "finalize"
  /\ Store(finalize(ElState, root))
  /\ pc' = "done"
  /\ UNCHANGED << tree, sense, out, now, ticks, runs >>

Next ==
  \/ RunStart
  \/ \E d \in Decisions, delay \in Delays : RunLoop(d, delay)
  \/ RunFinish

Spec == Init /\ [][Next]_vars

\* -------------------------------------------------------------------- main
\* main(): Sequence({walk(4), stop}) handed to Executor::run once.
MainTree == << SequenceElement(<<2, 3>>), WalkToPosition(4000), Stop >>

\* The positions of main's walk and stop objects in MainTree.
walk == 2
stop == 3

InitMain ==
  /\ tree = MainTree
  /\ Constructed

\* Number of passes of the loop so far that took TIMEOUT instead of period.
Late == (now - Epoch) \div TIMEOUT

MainStart ==
  /\ runs = 0
  /\ RunStart

\* A pass of the loop in main's run; neither element has an open decision.
MainLoop(delay) ==
  /\ ticks < MaxMainTicks
  /\ delay # period => Late < MaxLate
  /\ Loop(Outcome, delay)

NextMain ==
  \/ MainStart
  \/ \E delay \in Delays : MainLoop(delay)
  \/ RunFinish

\* The thread that runs Executor::run keeps running.
SpecMain == InitMain /\ [][NextMain]_vars /\ WF_vars(NextMain)

\* ------------------------------------------------- a run whose leaves end
\* Every leaf without a modelled body has returned Success or Fail by tick
\* MaxLeafTicks of each of its initialize cycles.
LeavesEnd ==
  \A i \in DOMAIN trace :
    (/\ trace[i].op = "return"
     /\ tree[trace[i].el].kind = "Leaf"
     /\ trace[i].val = Running) =>
      LET e == trace[i].el
          from == CHOOSE j \in 0 .. i :
                    /\ j = 0 \/ (trace[j].op = "initialize" /\ trace[j].el = e)
                    /\ \A m \in j + 1 .. i :
                         ~ (trace[m].op = "initialize" /\ trace[m].el = e)
      IN Cardinality({m \in from + 1 .. i :
                        trace[m].op = "tick" /\ trace[m].el = e}) < MaxLeafTicks

LiveStart ==
  /\ runs = 0
  /\ RunStart

\* A pass of the loop in which the leaf that is reached keeps to LeavesEnd.
LiveLoop(d, delay) ==
  /\ ticks < MaxLiveTicks
  /\ Loop(d, delay)
  /\ LeavesEnd'

NextLive ==
  \/ LiveStart
  \/ \E d \in Decisions, delay \in Delays : LiveLoop(d, delay)
  \/ RunFinish

\* A pass of the loop has been taken: the steps of NextLive that count a tick.
Passed ==
  /\ pc = "loop"
  /\ ticks < MaxLiveTicks
  /\ ticks' = ticks + 1

\* One run of Executor::run on a thread that keeps running: run starts, each
\* pass of the loop that can be taken is taken, and so is the finalize.
SpecLive ==
  /\ Init
  /\ [][NextLive]_vars
  /\ WF_vars(LiveStart) /\ WF_ticks(Passed) /\ WF_vars(RunFinish)

\* ------------------------------------------------ a caller other than run()
\* The BehaviorElement interface is public: any caller may invoke initialize,
\* tick and finalize on the root element, in any order.
CountOf(op, e) == Cardinality({i \in DOMAIN trace : trace[i].op = op /\ trace[i].el = e})

\* The SenseInfo values such a caller passes in (ts is stamped from the clock).
ApiSenses == { SenseInfo }

\* Number of calls the caller has made on the root so far.
Calls == runs + ticks + CountOf("finalize", root)

\* The positions a dangling m_iter of the root can behave as.
UBChoices ==
  IF IsSeq(root) /\ m_iter[root] = Dangling
    THEN {Wild} \cup (1 .. Len(tree[root].kids) + 1)
    ELSE {Wild}

ApiInitialize ==
  /\ out.value # Crash
  /\ Calls < MaxCalls
  /\ runs < MaxRuns
  /\ runs' = runs + 1
  /\ Store(initialize(ElState, root))
  /\ UNCHANGED << tree, sense, out, now, pc, ticks >>

ApiTick(s0, d, ub, delay) ==
  /\ out.value # Crash
  /\ Calls < MaxCalls
  /\ ticks < MaxTicks
  /\ ticks' = ticks + 1
  /\ LET s == [s0 EXCEPT !.ts = now]
         r == tick(ElState, root, s, d, ub)
     IN /\ Store(r.st)
        /\ out' = r.o
        /\ sense' = s
  /\ now' = now + delay
  /\ UNCHANGED << tree, pc, runs >>

ApiFinalize ==
  /\ out.value # Crash
  /\ Calls < MaxCalls
  /\ CountOf("finalize", root) < MaxRuns
  /\ Store(finalize(ElState, root))
  /\ UNCHANGED << tree, sense, out, now, pc, ticks, runs >>

NextApi ==
  \/ ApiInitialize
  \/ \E s0 \in ApiSenses, d \in Decisions, ub \in UBChoices, delay \in Delays :
       ApiTick(s0, d, ub, delay)
  \/ ApiFinalize

SpecApi == Init /\ [][NextApi]_vars

\* ------------------------------------------- a caller of a WalkToPosition
\* A WalkToPosition on its own, taken through initialize, ticks and finalize
\* by a caller that passes SenseInfo of its choosing.
InitWalk ==
  /\ tree = << WalkToPosition(4000) >>
  /\ Constructed

\* Positions on both sides of the goal: at, just inside and on the threshold.
WalkSenses ==
  [measured_velocity : {0}, measured_x : {3900, 3901, 4000, 4099, 4100},
   is_flinching : {FALSE}, is_knee_jerking : BOOLEAN, ts : {0}]

\* The clock moves on between two ticks, by little or by the whole TIMEOUT.
WalkDelays == {1, TIMEOUT}

WalkInitialize ==
  /\ pc \in {"idle", "done"}
  /\ runs < MaxRuns
  /\ runs' = runs + 1
  /\ Store(initialize(ElState, root))
  /\ pc' = "loop"
  /\ UNCHANGED << tree, sense, out, now, ticks >>

WalkTick(s0, delay) ==
  /\ pc = "loop"
  /\ ticks < MaxWalkTicks
  /\ ticks' = ticks + 1
  /\ LET s == [s0 EXCEPT !.ts = now]
         r == tick(ElState, root, s, Outcome, Wild)
     IN /\ Store(r.st)
        /\ out' = r.o
        /\ sense' = s
        /\ pc' = IF r.o.value = Running THEN "loop" ELSE "finalize"
  /\ now' = now + delay
  /\ UNCHANGED << tree, runs >>

WalkFinalize ==
  /\ pc = "finalize"
  /\ Store(finalize(ElState, root))
  /\ pc' = "done"
  /\ UNCHANGED << tree, sense, out, now, ticks, runs >>

NextWalk ==
  \/ WalkInitialize
  \/ \E s0 \in WalkSenses, delay \in WalkDelays : WalkTick(s0, delay)
  \/ WalkFinalize

SpecWalk == InitWalk /\ [][NextWalk]_vars

\* ------------------------------------------------------ reading the trace
Sequences == {e \in Elems : IsSeq(e)}
Leaves == {e \in Elems : IsMotionElement(e)}
Children(S) == {tree[S].kids[k] : k \in DOMAIN tree[S].kids}
Is(i, op, e) == trace[i].op = op /\ trace[i].el = e
Max(A) == CHOOSE x \in A : \A y \in A : y <= x
Min(A) == CHOOSE x \in A : \A y \in A : x <= y

\* Number of calls op on e among the first n recorded calls.
Count(op, e, n) == Cardinality({i \in 1 .. n : Is(i, op, e)})
\* The call that opened the tick of e enclosing position i, and the one closing it.
TickBefore(e, i) == Max({j \in 1 .. i : Is(j, "tick", e)})
ReturnAfter(e, j) == Min({r \in j .. Len(trace) : Is(r, "return", e)})
\* The initialize cycle of e around position i: from its initialize up to the next.
CycleStart(e, i) == Max({0} \cup {j \in 1 .. i : Is(j, "initialize", e)})
CycleEnd(e, i) ==
  Min({Len(trace) + 1} \cup {j \in i + 1 .. Len(trace) : Is(j, "initialize", e)})
\* The returns of the direct children of S inside the tick of S that spans j..r.
ChildReturns(S, j, r) ==
  {m \in j .. r : trace[m].op = "return" /\ trace[m].el \in Children(S)}
\* The ticks of sequence S recorded so far, as <<call, return>> positions.
TicksOf(S) ==
  {<<j, ReturnAfter(S, j)>> : j \in {i \in DOMAIN trace : Is(i, "tick", S)}}
Last(S) == tree[S].kids[Len(tree[S].kids)]

\* C1: when child k of a sequence returns Fail, the sequence returns Fail from
\* the very tick that ticked the child, and no child after k is initialized
\* or ticked anywhere in that initialize cycle of the sequence.
C1_FailShortCircuits ==
  \A S \in Sequences : \A k \in DOMAIN tree[S].kids : \A i \in DOMAIN trace :
    (Is(i, "return", tree[S].kids[k]) /\ trace[i].val = Fail) =>
      LET j == TickBefore(S, i)
          r == ReturnAfter(S, j)
      IN /\ r > i
         /\ trace[r].val = Fail
         /\ \A m \in CycleStart(S, i) + 1 .. CycleEnd(S, i) - 1 :
              \A k2 \in DOMAIN tree[S].kids :
                k2 > k => ~ (Is(m, "initialize", tree[S].kids[k2])
                              \/ Is(m, "tick", tree[S].kids[k2]))

\* A sequence of three children whose second child failed after the first
\* succeeded, Executor::run having finished.
C1_Witness ==
  /\ pc = "done"
  /\ \E S \in Sequences :
       /\ Len(tree[S].kids) = 3
       /\ \E i, m \in DOMAIN trace :
            /\ i < m
            /\ Is(i, "return", tree[S].kids[1]) /\ trace[i].val = Success
            /\ Is(m, "return", tree[S].kids[2]) /\ trace[m].val = Fail

\* C2: a tick of a sequence whose child keeps running or succeeds returns
\* Running with that child's velocity, except that the Success of the last
\* child is returned as the sequence's Success from the same tick; a sequence
\* returns Running or Success in no other way.
C2_SuccessAdvances ==
  \A S \in Sequences : \A t \in TicksOf(S) :
    LET ret == trace[t[2]]
        cr == ChildReturns(S, t[1], t[2])
    IN /\ \A m \in cr :
            /\ trace[m].val = Running =>
                 ret.val = Running /\ ret.n = trace[m].n
            /\ (trace[m].val = Success /\ trace[m].el # Last(S)) =>
                 ret.val = Running /\ ret.n = trace[m].n
            /\ (trace[m].val = Success /\ trace[m].el = Last(S)) =>
                 ret.val = Success /\ ret.n = trace[m].n
       /\ ret.val = Running =>
            \E m \in cr : trace[m].val \in {Running, Success} /\ ret.n = trace[m].n
       /\ ret.val = Success =>
            \E m \in cr : trace[m].val = Success /\ trace[m].el = Last(S)

\* A sequence of three children that returned Success, having returned
\* Running with velocity 1 on the tick its first child succeeded.
C2_Witness ==
  \E S \in Sequences :
    /\ Len(tree[S].kids) = 3
    /\ \E t1, t2 \in TicksOf(S) :
         /\ trace[t2[2]].val = Success
         /\ trace[t1[2]].val = Running /\ trace[t1[2]].n = 1
         /\ \E m \in ChildReturns(S, t1[1], t1[2]) :
              trace[m].val = Success /\ trace[m].el = tree[S].kids[1]

\* C3: a child of a sequence is ticked only between its own initialize and
\* finalize, never after it returned Success or Fail, and only while every
\* other child is finalized; a child is initialized inside a cycle of its
\* sequence, after the finalize of the child before it, and before any
\* initialize of itself or of a later child in that cycle.
C3_OneAtATimeInOrder ==
  \A S \in Sequences : \A k \in DOMAIN tree[S].kids : \A i \in DOMAIN trace :
    LET c == tree[S].kids[k]
    IN /\ Is(i, "tick", c) =>
            /\ Count("initialize", c, i) = Count("finalize", c, i) + 1
            /\ \A m \in CycleStart(c, i) + 1 .. i :
                 Is(m, "return", c) => trace[m].val = Running
            /\ \A c2 \in Children(S) \ {c} :
                 Count("initialize", c2, i) = Count("finalize", c2, i)
       /\ Is(i, "initialize", c) =>
            /\ CycleStart(S, i) > 0
            /\ k > 1 => \E m \in CycleStart(S, i) + 1 .. i - 1 :
                          Is(m, "finalize", tree[S].kids[k - 1])
            /\ \A m \in CycleStart(S, i) + 1 .. i - 1 :
                 \A k2 \in DOMAIN tree[S].kids :
                   k2 >= k => ~ Is(m, "initialize", tree[S].kids[k2])

\* A sequence whose three children have all been finalized in one run, the
\* first of them after more than one tick.
C3_Witness ==
  /\ runs = 1
  /\ \E S \in Sequences :
       /\ Len(tree[S].kids) = 3
       /\ \A k \in 1 .. 3 : Count("finalize", tree[S].kids[k], Len(trace)) = 1
       /\ Count("tick", tree[S].kids[1], Len(trace)) = 2

\* C4 as stated: every element has received as many finalize calls as
\* initialize calls, at every point of the run.
C4_CountsAlwaysEqual ==
  \A e \in Elems : \A n \in 0 .. Len(trace) :
    Count("finalize", e, n) = Count("initialize", e, n)

\* C4, amended: at every point of the run an element has received as many
\* finalize calls as initialize calls, or one fewer (it is between its
\* initialize and its finalize); whenever Executor::run is not running the
\* two numbers are equal.
C4_CountsBalanced ==
  \A e \in Elems :
    /\ \A n \in 0 .. Len(trace) :
         Count("initialize", e, n) - Count("finalize", e, n) \in {0, 1}
    /\ pc \in {"idle", "done"} =>
         Count("initialize", e, Len(trace)) = Count("finalize", e, Len(trace))

\* Executor::run has returned twice and a leaf under a nested sequence went
\* through two initialize cycles.
C4_Witness ==
  /\ pc = "done"
  /\ runs = 2
  /\ \E S \in Sequences \ {root} : \E e \in Children(S) :
       /\ IsMotionElement(e)
       /\ Count("initialize", e, Len(trace)) = 2
       /\ Count("finalize", e, Len(trace)) = 2

\* The leaf the iterators of the sequences lead to from e (0: none).
RECURSIVE ActiveLeaf(_)
ActiveLeaf(e) ==
  IF IsMotionElement(e) THEN e
  ELSE IF m_iter[e] \in DOMAIN tree[e].kids
    THEN ActiveLeaf(tree[e].kids[m_iter[e]])
    ELSE 0

IsReaction(i) == trace[i].op \in {"activate", "release"}
\* Activations minus releases among the first n recorded calls.
Outstanding(n) ==
  Cardinality({i \in 1 .. n : trace[i].op = "activate"})
    - Cardinality({i \in 1 .. n : trace[i].op = "release"})

\* C5: activate is called by a leaf inside its initialize while no other leaf
\* is between initialize and finalize and no activation is outstanding;
\* release is called by a leaf inside its finalize and the reaction call
\* before it is the activate of that same leaf; at most one activation is
\* ever outstanding, the leaf holding it is the one the sequences' iterators
\* lead to, and none is outstanding once Executor::run has returned.
C5_MaskDiscipline ==
  /\ \A i \in DOMAIN trace :
       LET L == trace[i].el
       IN /\ trace[i].op = "activate" =>
               /\ L \in Leaves
               /\ i > 1 /\ Is(i - 1, "initialize", L)
               /\ \A e \in Leaves \ {L} :
                    Count("initialize", e, i) = Count("finalize", e, i)
               /\ Outstanding(i - 1) = 0
          /\ trace[i].op = "release" =>
               /\ L \in Leaves
               /\ i > 1 /\ Is(i - 1, "finalize", L)
               /\ \E j \in 1 .. i - 1 :
                    /\ Is(j, "activate", L)
                    /\ \A m \in j + 1 .. i - 1 : ~ IsReaction(m)
  /\ \A n \in 0 .. Len(trace) : Outstanding(n) \in {0, 1}
  /\ Outstanding(Len(trace)) = 1 =>
       LET j == Max({i \in DOMAIN trace : trace[i].op = "activate"})
       IN trace[j].el = ActiveLeaf(root)
  /\ pc = "done" => Outstanding(Len(trace)) = 0

\* Executor::run has returned after two different leaves each activated and
\* released their mask.
C5_Witness ==
  /\ pc = "done"
  /\ \E i, j \in DOMAIN trace :
       /\ trace[i].op = "release" /\ trace[j].op = "release"
       /\ trace[i].el # trace[j].el

\* The mask a leaf declares: knee-jerk in bit 0, flinch in bit 1.
DeclaredBits(e) ==
  (IF tree[e].kj = ReactionDef_ENABLED THEN {0} ELSE {})
    \cup (IF tree[e].fl = ReactionDef_ENABLED THEN {1} ELSE {})
DeclaredMask(e) ==
  (IF 0 \in DeclaredBits(e) THEN 1 ELSE 0) + (IF 1 \in DeclaredBits(e) THEN 2 ELSE 0)

\* C6: every activate passes the mask with exactly the leaf's declared flags
\* set (knee-jerk bit 0, flinch bit 1; WalkToPosition passes 1), and every
\* release passes the mask of the leaf's latest activate.
C6_MaskIsDeclaredFlags ==
  \A i \in DOMAIN trace :
    LET L == trace[i].el
    IN /\ trace[i].op = "activate" =>
            /\ trace[i].n = DeclaredMask(L)
            /\ tree[L].kind = "WalkToPosition" => trace[i].n = 1
       /\ trace[i].op = "release" =>
            /\ \E j \in 1 .. i - 1 : Is(j, "activate", L)
            /\ trace[i].n =
                 trace[Max({j \in 1 .. i - 1 : Is(j, "activate", L)})].n

\* A WalkToPosition released mask 1 after it latched its start time, and a
\* Stop released mask 3.
C6_Witness ==
  \E i, j \in DOMAIN trace :
    /\ trace[i].op = "release" /\ tree[trace[i].el].kind = "WalkToPosition"
    /\ trace[i].n = 1
    /\ init_ts[trace[i].el] # 0
    /\ trace[j].op = "release" /\ tree[trace[j].el].kind = "Stop"
    /\ trace[j].n = 3

\* The ticks of leaf L in the initialize cycle around position i, before i.
EarlierTicks(L, i) == {m \in CycleStart(L, i) + 1 .. i - 1 : Is(m, "tick", L)}

\* C7: the data-initialization hook of a leaf runs right after the call of
\* the first tick of an initialize cycle, with the timestamp of that tick and
\* before the decision function; it runs on every first tick of a cycle and
\* on no other tick; WalkToPosition holds the timestamp of the first tick of
\* its current cycle.
C7_DataInitOncePerCycle ==
  \A L \in Leaves : \A i \in DOMAIN trace :
    /\ Is(i, "data_initialize", L) =>
         /\ i > 1 /\ Is(i - 1, "tick", L)
         /\ trace[i].n = trace[i - 1].n
         /\ CycleStart(L, i) > 0
         /\ EarlierTicks(L, i - 1) = {}
         /\ i + 1 \in DOMAIN trace /\ Is(i + 1, "decide", L)
    /\ (Is(i, "tick", L) /\ EarlierTicks(L, i) = {}) =>
         /\ i + 1 \in DOMAIN trace /\ Is(i + 1, "data_initialize", L)
         /\ (tree[L].kind = "WalkToPosition" /\ CycleEnd(L, i) > Len(trace)) =>
              init_ts[L] = trace[i].n
    /\ (Is(i, "tick", L) /\ EarlierTicks(L, i) # {}) =>
         /\ i + 1 \in DOMAIN trace /\ Is(i + 1, "decide", L)

\* A leaf in its second initialize cycle: the hook ran twice, the leaf was
\* ticked at least three times.
C7_Witness ==
  \E L \in Leaves :
    /\ Count("initialize", L, Len(trace)) = 2
    /\ Count("data_initialize", L, Len(trace)) = 2
    /\ Count("tick", L, Len(trace)) >= 3

Empty(S) == IsSeq(S) /\ Len(tree[S].kids) = 0

\* C8: a tick of a sequence without children returns Fail and calls nothing;
\* the sequence that holds it returns Fail from the same tick; when the root
\* has no children nothing but the root is ever called.
C8_EmptySequenceFails ==
  \A S \in Sequences : Empty(S) =>
    /\ \A i \in DOMAIN trace : Is(i, "tick", S) =>
         /\ i + 1 \in DOMAIN trace
         /\ Is(i + 1, "return", S)
         /\ trace[i + 1].val = Fail
         /\ \A P \in Sequences : S \in Children(P) =>
              trace[ReturnAfter(P, i)].val = Fail
    /\ S = root =>
         \A i \in DOMAIN trace :
           /\ trace[i].el = root
           /\ trace[i].op \in {"initialize", "tick", "return", "finalize"}

\* Executor::run has returned after a sequence ended with Fail because its
\* second child, a sequence without children, was ticked.
C8_Witness ==
  /\ pc = "done"
  /\ \E P \in Sequences :
       /\ Len(tree[P].kids) = 2
       /\ Empty(tree[P].kids[2])
       /\ Count("tick", tree[P].kids[2], Len(trace)) = 1
       /\ out.value = Fail

\* The returns of the root in its initialize cycle around i, before i.
EarlierReturns(i) ==
  {m \in CycleStart(root, i) + 1 .. i - 1 : Is(m, "return", root)}

\* C10: the root is initialized only when every earlier initialize has its
\* finalize; it is ticked only after an initialize, before the finalize of
\* that cycle and while all its earlier returns of the cycle were Running; it
\* is finalized once per cycle, after a return of Success or Fail; and when
\* Executor::run has returned the root has been ticked and finalized in
\* every cycle.
C10_RunLifecycle ==
  /\ \A i \in DOMAIN trace :
       /\ Is(i, "initialize", root) =>
            Count("initialize", root, i) = Count("finalize", root, i) + 1
       /\ Is(i, "tick", root) =>
            /\ CycleStart(root, i) > 0
            /\ Count("initialize", root, i) = Count("finalize", root, i) + 1
            /\ \A m \in EarlierReturns(i) : trace[m].val = Running
       /\ Is(i, "finalize", root) =>
            /\ Count("initialize", root, i) = Count("finalize", root, i)
            /\ \E m \in EarlierReturns(i) : trace[m].val \in {Success, Fail}
  /\ Count("initialize", root, Len(trace)) = runs
  /\ pc = "loop" => Count("finalize", root, Len(trace)) = runs - 1
  /\ pc = "finalize" =>
       /\ out.value \in {Success, Fail}
       /\ Count("finalize", root, Len(trace)) = runs - 1
  /\ pc = "done" =>
       /\ Count("finalize", root, Len(trace)) = runs
       /\ Is(Len(trace), "finalize", root) \/ trace[Len(trace)].op = "release"

\* Executor::run has returned once, after ticking the root three times.
C10_Witness ==
  /\ pc = "done"
  /\ runs = 1
  /\ Count("tick", root, Len(trace)) = 3

\* Whether the tick call at position i breaks the lifecycle: it comes before
\* any initialize of the root, or after the root returned Success or Fail in
\* the current initialize cycle.
UsageError(i) ==
  /\ Is(i, "tick", root)
  /\ \/ CycleStart(root, i) = 0
     \/ \E m \in EarlierReturns(i) : trace[m].val \in {Success, Fail}

\* C9: a tick that is a usage error is trapped: the next thing recorded is
\* the death of the process, not a call of a child, of the decision function
\* or a return.
C9_UsageErrorTrapped ==
  \A i \in DOMAIN trace :
    UsageError(i) => (i + 1 \in DOMAIN trace /\ trace[i + 1].op = "crash")

\* C11: every step that ticks the root moves measured_x by the velocity the
\* root returned on that tick times 100 ms and sets measured_velocity to
\* that velocity, on the last tick of a run as on the others; no other step
\* of a run changes the SenseInfo; the two reflex flags never change.
C11_OneActuationPerTick ==
  [][
      /\ ticks' = ticks + 1 =>
           LET ret == trace'[Len(trace')]
           IN /\ ret.op = "return" /\ ret.el = root
              /\ sense'.measured_velocity = ret.n
              /\ sense'.measured_x = sense.measured_x + ret.n * 100
      /\ (ticks' = ticks /\ runs' = runs) => sense' = sense
      /\ sense'.is_flinching = sense.is_flinching
      /\ sense'.is_knee_jerking = sense.is_knee_jerking
    ]_vars

\* Executor::run has returned after two ticks that both commanded velocity 1,
\* the second one ending the run.
C11_Witness ==
  /\ pc = "done"
  /\ runs = 1
  /\ out.value = Success /\ out.velocity = 1
  /\ sense.measured_x = 200 /\ sense.measured_velocity = 1

\* The calls recorded by the step being taken.
Fresh == Len(trace) + 1 .. Len(trace')
\* The step being taken records that e returned v.
Returns(e, v) == \E i \in Fresh : trace'[i].op = "return" /\ trace'[i].el = e
                                  /\ trace'[i].val = v
\* The walk of main was ticked more than 60 s after its first tick.
WalkTickedLate ==
  \E i, j \in DOMAIN trace :
    /\ Is(i, "data_initialize", walk) /\ Is(j, "tick", walk)
    /\ trace[j].n - trace[i].n > 60000

\* C12: in main's run of Sequence([WalkToPosition(4.0), Stop]), started at
\* measured_x = 0 and measured_velocity = 0, a tick that finds the walk
\* current, |4.0 - measured_x| >= 0.1 and less than 60 s elapsed returns
\* Running with velocity +1; a tick that finds |4.0 - measured_x| < 0.1 has
\* the walk return Success and leaves Stop the current child; every tick with
\* Stop current returns velocity 0, Running while the measured velocity is
\* not zero and Success once it is; the run ends, and it ends with Success
\* whenever the walk was never ticked later than 60 s after its first tick.
C12_WalkThenStop ==
  /\ sense.measured_x = 0 /\ sense.measured_velocity = 0
  /\ [][
        ticks' = ticks + 1 =>
          LET x == sense.measured_x
              elapsed == now - init_ts'[walk]
          IN /\ (m_iter[root] = 1 /\ Abs(4000 - x) >= 100 /\ elapsed < 60000) =>
                  out' = [value |-> Running, velocity |-> 1]
             /\ (m_iter[root] = 1 /\ Abs(4000 - x) < 100) =>
                  /\ Returns(walk, Success)
                  /\ m_iter'[root] = 2
                  /\ tree[root].kids[m_iter'[root]] = stop
                  /\ out'.value = Running
             /\ m_iter[root] = 2 =>
                  /\ out'.velocity = 0
                  /\ out'.value = IF sense.measured_velocity = 0 THEN Success
                                                                ELSE Running
      ]_vars
  /\ [](pc = "done" /\ ~ WalkTickedLate => out.value = Success)
  /\ <>(pc = "done")

\* main's run is over with Success: the walk took more than one tick and
\* Stop needed a second tick for the velocity to be measured as zero.
C12_Witness ==
  /\ tree = MainTree /\ pc = "done" /\ out.value = Success
  /\ Count("tick", walk, Len(trace)) > 1
  /\ Count("tick", stop, Len(trace)) = 2

\* C13: a tick of main's sequence that ticks the walk more than 60 s after
\* the walk's first tick, the goal not being within 0.1, has the walk return
\* Fail and the sequence return Fail from that same tick, which ends the
\* loop; once the walk has failed, Stop has never been initialized.
C13_TimeoutFailsSequence ==
  /\ [][
        (/\ ticks' = ticks + 1
         /\ m_iter[root] = 1
         /\ Abs(4000 - sense.measured_x) >= 100
         /\ now - init_ts'[walk] > 60000) =>
          /\ Returns(walk, Fail)
          /\ Returns(root, Fail)
          /\ out'.value = Fail
          /\ pc' = "finalize"
      ]_vars
  /\ [](  (\E i \in DOMAIN trace : Is(i, "return", walk) /\ trace[i].val = Fail)
         => Count("initialize", stop, Len(trace)) = 0)

\* main's run is over with Fail after the walk timed out short of the goal.
C13_Witness ==
  /\ tree = MainTree /\ pc = "done" /\ out.value = Fail
  /\ WalkTickedLate
  /\ Abs(4000 - sense.measured_x) > 100
  /\ Count("initialize", stop, Len(trace)) = 0

\* The root is a sequence of a WalkToPosition and a Stop, as in main.
WalkThenStop ==
  /\ IsSeq(root) /\ Len(tree[root].kids) = 2
  /\ tree[tree[root].kids[1]].kind = "WalkToPosition"
  /\ tree[tree[root].kids[2]].kind = "Stop"

\* C19: in a run of Sequence([WalkToPosition, Stop]), the tick on which the
\* walk returns Success or Fail returns velocity +1 or -1 from the walk and
\* from the sequence, so that step moves measured_x by 0.1 m in the commanded
\* direction beyond the position the walk saw and leaves a measured velocity
\* of magnitude 1; no tick with Stop current moves measured_x, and the first
\* tick of Stop sees a measured velocity of magnitude 1.
C19_WalkHandsOverAtSpeed ==
  [][
      (ticks' = ticks + 1 /\ WalkThenStop) =>
        LET w == tree[root].kids[1]
        IN /\ (Returns(w, Success) \/ Returns(w, Fail)) =>
                /\ \A i \in Fresh :
                     trace'[i].op = "return" => trace'[i].n \in {1, -1}
                /\ out'.velocity \in {1, -1}
                /\ sense'.measured_x = sense.measured_x + out'.velocity * 100
                /\ Abs(sense'.measured_velocity) = 1
           /\ m_iter[root] = 2 =>
                /\ sense'.measured_x = sense.measured_x
                /\ m_new_element[root] => Abs(sense.measured_velocity) = 1
    ]_vars

\* A run of Sequence([WalkToPosition, Stop]) is over with Success: the walk
\* returned Success with velocity 1 at its goal and the position ended 0.1 m
\* beyond it.
C19_Witness ==
  /\ WalkThenStop /\ pc = "done" /\ runs = 1 /\ out.value = Success
  /\ \E i \in DOMAIN trace :
       /\ Is(i, "return", tree[root].kids[1])
       /\ trace[i].val = Success /\ trace[i].n = 1
  /\ sense.measured_x = tree[tree[root].kids[1]].goal + 100
  /\ sense.measured_velocity = 0

\* The calls recorded during the r-th cycle of the root, in order.
CycleOf(r) ==
  LET starts == {i \in DOMAIN trace : Is(i, "initialize", root)}
      first == Min({i \in starts : Count("initialize", root, i) = r})
      later == {i \in starts : i > first}
  IN SubSeq(trace, first, IF later = {} THEN Len(trace) ELSE Min(later) - 1)
\* A cycle with its timestamps counted from the first tick of the cycle.
Relative(c) ==
  [k \in DOMAIN c |->
     IF c[k].op \in {"tick", "data_initialize", "decide"}
       THEN [c[k] EXCEPT !.n = @ - c[2].n]
       ELSE c[k]]
\* What a cycle is fed at call k: the time of a root tick (the position and
\* velocity follow from the outcomes before it) and what the decision
\* function of a leaf without a modelled body answers.
Fed(c, k) ==
  \/ c[k].op = "tick" /\ c[k].el = root
  \/ c[k].op = "return" /\ tree[c[k].el].kind = "Leaf"

\* C14: the second cycle of the same element objects under Executor::run
\* records the same calls (initialize, tick, data initialisation, finalize,
\* activate, release, each with its element and mask) and the same returned
\* outcomes as the first cycle, timestamps counted from the cycle's first
\* tick, for as long as both cycles are fed the same: the two records can
\* first differ only in what a call is fed, never in which call is made.
C14_SecondCycleRepeatsFirst ==
  runs = 2 =>
    LET a == Relative(CycleOf(1))
        b == Relative(CycleOf(2))
        diff == {k \in 1 .. Min({Len(a), Len(b)}) : a[k] # b[k]}
    IN diff # {} =>
         LET k == Min(diff)
         IN /\ a[k].op = b[k].op
            /\ a[k].el = b[k].el
            /\ Fed(a, k)

\* Executor::run has returned twice on a sequence with children; the second
\* cycle was fed the same as the first, took two ticks like the first, and
\* recorded the same calls and outcomes.
C14_Witness ==
  /\ pc = "done" /\ runs = 2
  /\ IsSeq(root) /\ Len(tree[root].kids) = 2
  /\ Relative(CycleOf(1)) = Relative(CycleOf(2))
  /\ Count("tick", root, Len(trace)) = 4
  /\ \A e \in Children(root) : Count("activate", e, Len(trace)) = 2

\* The elements below sequence S, at any depth.
RECURSIVE Under(_)
Under(S) ==
  UNION {{c} \cup (IF IsSeq(c) THEN Under(c) ELSE {}) : c \in Children(S)}
\* The sequences that enclose e, at any depth.
Enclosing(e) == {S \in Sequences : e \in Under(S)}

\* C15: when a leaf returns Fail, every sequence that encloses it, at any
\* depth, returns Fail with the leaf's velocity from the tick that reached
\* the leaf, all inside one tick of the root; a child that returned Fail is
\* neither initialized nor ticked again in that cycle of its sequence; and a
\* child after the first is initialized only when the last outcome of the
\* child before it was Success.
C15_FailFlowsUpward ==
  /\ \A L \in Leaves : \A i \in DOMAIN trace :
       (Is(i, "return", L) /\ trace[i].val = Fail) =>
         \A S \in Enclosing(L) :
           LET j == TickBefore(S, i)
               r == ReturnAfter(S, j)
           IN /\ r > i
              /\ trace[r].val = Fail
              /\ trace[r].n = trace[i].n
              /\ TickBefore(root, r) = TickBefore(root, i)
  /\ \A S \in Sequences : \A k \in DOMAIN tree[S].kids : \A i \in DOMAIN trace :
       LET c == tree[S].kids[k]
       IN /\ (Is(i, "return", c) /\ trace[i].val = Fail) =>
               \A m \in i + 1 .. CycleEnd(S, i) - 1 :
                 ~ Is(m, "initialize", c) /\ ~ Is(m, "tick", c)
          /\ (Is(i, "initialize", c) /\ k > 1) =>
               LET before == {m \in CycleStart(S, i) + 1 .. i - 1 :
                                Is(m, "return", tree[S].kids[k - 1])}
               IN before # {} /\ trace[Max(before)].val = Success

\* A leaf two sequences below the root returned Fail with velocity 1 after a
\* Running tick, and Executor::run returned with that outcome.
C15_Witness ==
  /\ pc = "done" /\ out = [value |-> Fail, velocity |-> 1]
  /\ \E L \in Leaves : \E i \in DOMAIN trace :
       /\ Cardinality(Enclosing(L)) = 3
       /\ Is(i, "return", L) /\ trace[i].val = Fail /\ trace[i].n = 1
       /\ Count("tick", L, i) = 2

\* The calls of op on direct children of S among positions j .. r.
ChildCalls(S, op, j, r) ==
  {m \in j .. r : trace[m].op = op /\ trace[m].el \in Children(S)}
\* The child of S that is current at position j: the one after the children
\* finalized so far in this cycle of S.
CurrentChild(S, j) ==
  tree[S].kids[1 + Cardinality(ChildCalls(S, "finalize", CycleStart(S, j), j))]

\* C16: a tick of a sequence that has children ticks exactly one child, once,
\* and that child is the current one; it initializes at most one child, and
\* only before ticking it; when the child returns Running the sequence
\* returns the same value and velocity; when a child that is not the last
\* succeeds, nothing more is called on any child in that tick but its
\* finalize. A tick of the root reaches at most one leaf, and exactly one
\* unless it ticked a sequence without children.
C16_OneChildPerTick ==
  /\ \A S \in Sequences : \A t \in TicksOf(S) :
       LET j == t[1]
           r == t[2]
           ticked == ChildCalls(S, "tick", j, r)
       IN ~ Empty(S) =>
            /\ Cardinality(ticked) = 1
            /\ \A m \in ticked : trace[m].el = CurrentChild(S, j)
            /\ \A m \in ChildCalls(S, "initialize", j, r) :
                 /\ trace[m].el = CurrentChild(S, j)
                 /\ \A m2 \in ticked : m < m2
            /\ \A m \in ChildReturns(S, j, r) :
                 /\ trace[m].val = Running =>
                      trace[r].val = Running /\ trace[r].n = trace[m].n
                 /\ (trace[m].val = Success /\ trace[m].el # Last(S)) =>
                      \A m2 \in m + 1 .. r :
                        trace[m2].el \in Children(S) =>
                          trace[m2].op \in {"finalize", "release"}
  /\ \A t \in TicksOf(root) :
       LET reached == {m \in t[1] .. t[2] : trace[m].op = "tick"
                                             /\ trace[m].el \in Leaves}
           hollow == {m \in t[1] .. t[2] : trace[m].op = "tick"
                                            /\ Empty(trace[m].el)}
       IN /\ Cardinality(reached) <= 1
          /\ hollow = {} => Cardinality(reached) = 1

\* A sequence below the root has seen its first child succeed on one tick and
\* its second child initialized and ticked on the next.
C16_Witness ==
  \E S \in Sequences \ {root} : \E m, m2 \in DOMAIN trace :
    /\ Len(tree[S].kids) = 2
    /\ Is(m, "return", tree[S].kids[1]) /\ trace[m].val = Success
    /\ Is(m2, "initialize", tree[S].kids[2])
    /\ TickBefore(root, m2) > m
    /\ Is(m2 + 2, "tick", tree[S].kids[2])

\* The cycle of S that ends with the terminal return at position i took as
\* many ticks of S as its children were ticked in it.
AddsNoTick(S, i) ==
  LET a == CycleStart(S, i)
  IN Cardinality({m \in a .. i : Is(m, "tick", S)})
       = Cardinality(ChildCalls(S, "tick", a, i))
\* The children ticked in that cycle are the first n of S, the last of them
\* the first to fail or the last child of S.
RanInOrder(S, i) ==
  LET a == CycleStart(S, i)
      ran == {trace[m].el : m \in ChildCalls(S, "tick", a, i)}
      n == Cardinality(ran)
  IN /\ ran = {tree[S].kids[q] : q \in 1 .. n}
     /\ \A q \in 1 .. n - 1 : \E m \in a .. i :
          Is(m, "return", tree[S].kids[q]) /\ trace[m].val = Success
     /\ n > 0 => \E m \in a .. i :
          /\ Is(m, "return", tree[S].kids[n])
          /\ trace[m].val = Fail \/ (trace[m].val = Success /\ n = Len(tree[S].kids))
\* The positions at which sequence S returned Success or Fail.
Ended(S) == {i \in DOMAIN trace : Is(i, "return", S) /\ trace[i].val # Running}

\* C17 as stated: when every leaf ends after finitely many ticks,
\* Executor::run returns, and every sequence, up to its terminal outcome,
\* was ticked as often as its children that ran were ticked.
C17_TicksAreChildTicks ==
  /\ <>(pc = "done")
  /\ [](\A S \in Sequences : \A i \in Ended(S) :
          AddsNoTick(S, i) /\ RanInOrder(S, i))

\* C17, amended: when every leaf ends after finitely many ticks,
\* Executor::run returns; every sequence with at least one child, up to its
\* terminal outcome, was ticked as often as its children that ran were
\* ticked, those being its first children up to the first that failed or
\* all of them; a sequence without children is ticked once, which returns
\* Fail, although no child ran.
C17_TicksAreChildTicksUnlessEmpty ==
  /\ <>(pc = "done")
  /\ [](\A S \in Sequences : \A i \in Ended(S) :
          IF Empty(S)
            THEN /\ Count("tick", S, i) - Count("tick", S, CycleStart(S, i)) = 1
                 /\ trace[i].val = Fail
            ELSE AddsNoTick(S, i) /\ RanInOrder(S, i))

\* Executor::run has returned Success on a sequence of three leaves after
\* five ticks: two leaves took two ticks each, one took one.
C17_Witness ==
  /\ pc = "done" /\ out.value = Success
  /\ IsSeq(root) /\ Len(tree[root].kids) = 3
  /\ Count("tick", root, Len(trace)) = 5
  /\ \A c \in Children(root) : IsMotionElement(c)

\* C18: a tick of WalkToPosition returns Success exactly when the goal is
\* within 0.1 of measured_x, whatever the elapsed time and the knee-jerk
\* flag; otherwise Fail exactly when more than 60 s have passed since its
\* first tick, and Running at exactly 60 s or less; a Running outcome carries
\* velocity 0 while is_knee_jerking is set, else +1 when goal - measured_x
\* >= 0 and -1 when it is negative. So with timestamps that increase from
\* tick to tick, a tick later than 60 s after the first is never answered
\* Running, and the walk is not ticked after it.
C18_ExitPriority ==
  [][
      ticks' = ticks + 1 =>
        LET dist == tree[root].goal - sense'.measured_x
            elapsed == sense'.ts - init_ts'[root]
            within == dist < 100 /\ dist > -100
        IN /\ sense'.ts > sense.ts
           /\ out'.value = Success <=> within
           /\ out'.value = Fail <=> (~ within /\ elapsed > 60000)
           /\ out'.value = Running <=> (~ within /\ elapsed <= 60000)
           /\ out'.value = Running =>
                out'.velocity = IF sense'.is_knee_jerking THEN 0
                                ELSE IF dist >= 0 THEN 1 ELSE -1
           /\ elapsed > 60000 => out'.value # Running /\ pc' = "finalize"
    ]_vars

\* The walk returned Success at the goal on a tick more than 60 s after its
\* first tick and with the knee-jerk reflex in command; the tick before, at
\* exactly 60 s and away from the goal, it was still running.
C18_Witness ==
  /\ tree[root].kind = "WalkToPosition" /\ pc = "finalize"
  /\ out.value = Success /\ sense.is_knee_jerking
  /\ sense.ts - init_ts[root] > 60000
  /\ \E i \in DOMAIN trace :
       /\ Is(i, "tick", root) /\ trace[i].n - init_ts[root] = 60000
       /\ CycleStart(root, i) = CycleStart(root, Len(trace))

\* The Stop elements of the tree.
Stops == {e \in Elems : tree[e].kind = "Stop"}
\* C20: every tick of a Stop under Executor::run returns velocity 0, with
\* Success when the measured velocity it is given is zero and Running when
\* it is not; the run applies that 0, so a Stop succeeds on the first tick
\* of its cycle when the velocity coming in is zero and on the second tick
\* otherwise, and is never ticked a third time.
C20_StopWithinTwoTicks ==
  [][
      ticks' = ticks + 1 =>
        \A e \in Stops : \A i \in Fresh :
          (trace'[i].op = "return" /\ trace'[i].el = e) =>
            LET incoming == sense.measured_velocity
                n == Cardinality({m \in CycleStart(e, Len(trace)) + 1 .. Len(trace) :
                                    Is(m, "tick", e)})
                first == n = 0 \/ \E m \in Fresh : trace'[m].op = "initialize"
                                                     /\ trace'[m].el = e
            IN /\ trace'[i].n = 0
               /\ trace'[i].val = IF incoming = 0 THEN Success ELSE Running
               /\ sense'.measured_velocity = 0
               /\ first \/ (n = 1 /\ trace'[i].val = Success)
               /\ first => (trace'[i].val = Success <=> incoming = 0)
    ]_vars

\* A Stop that followed a child returning velocity 1 was ticked twice,
\* Running and then Success, and Executor::run returned.
C20_Witness ==
  /\ pc = "done" /\ out = [value |-> Success, velocity |-> 0]
  /\ \E e \in Stops : \E i, j \in DOMAIN trace :
       /\ i < j
       /\ Is(i, "return", e) /\ trace[i].val = Running
       /\ Is(j, "return", e) /\ trace[j].val = Success
       /\ Count("tick", e, Len(trace)) = 2
       /\ tree[tree[root].kids[1]].kind = "Leaf"
====
